---- MODULE Spec2Model ----
(***************************************************************************)
(* A model of the rejection-inversion Zipf sampler of src/src/lib.rs.      *)
(*                                                                         *)
(* The f64 arithmetic of the source is modelled as exact arithmetic on     *)
(* rationals <<numerator, denominator>> (denominator >= 0, lowest terms;   *)
(* <<1,0>> is +inf, <<-1,0>> is -inf).  For the exponent 2 every quantity  *)
(* the sampler computes is rational:                                       *)
(*    h_integral(x)     = helper2((1-e) ln x) * ln x = (x^(1-e) - 1)/(1-e) *)
(*    h(x)              = exp(-e ln x)               = 1 / x^e             *)
(*    h_integral_inv(u) = exp(helper1(t) * u)        = (1 + t)^(1/(1-e))   *)
(* so the valid exponent of the model is 2; the exponents -1 and 0 drive   *)
(* the error paths of new.  Rounding errors of f64 are outside the model.  *)
(***************************************************************************)
EXTENDS Integers, Sequences, FiniteSets

\* ------------------------------------------------------------- bounds

\* Population sizes handed to new are 0..MaxN.
MaxN == 4

\* Uniform draws in [0,1) are i / DrawDen for the numerators in DrawNums.
DrawDen == 15

\* Each random source hands out at most MaxDraws draws (solo caller).
MaxDraws == 3

\* Each random source hands out at most TwinDraws draws (twin samplers).
TwinDraws == 2

\* The draws i / MeasureGrid, 0 <= i < MeasureGrid, measure sets of draws.
MeasureGrid == 32

\* ------------------------------------------------ exact rational numbers

Abs(i) == IF i < 0 THEN -i ELSE i

Sign(i) == IF i < 0 THEN -1 ELSE IF i > 0 THEN 1 ELSE 0

RECURSIVE GCD(_, _)
GCD(a, b) == IF b = 0 THEN a ELSE GCD(b, a % b)

\* n/d in lowest terms with d >= 0; n/0 is an infinity (or <<0,0>>, NaN).
Norm(n, d) ==
  IF d = 0 THEN <<Sign(n), 0>>
  ELSE LET g == GCD(Abs(n), Abs(d))
       IN  <<Sign(d) * (n \div g), Abs(d) \div g>>

Rat(n, d) == Norm(n, d)

Half == <<1, 2>>

RAdd(a, b) ==
  IF a[2] = 0 \/ b[2] = 0
    THEN Norm(a[1] * b[2] + b[1] * a[2], 0)
    ELSE LET g == GCD(a[2], b[2])
         IN  Norm(a[1] * (b[2] \div g) + b[1] * (a[2] \div g), (a[2] \div g) * b[2])

RNeg(a) == <<-a[1], a[2]>>

RSub(a, b) == RAdd(a, RNeg(b))

RMul(a, b) ==
  LET g1 == GCD(Abs(a[1]), b[2])
      g2 == GCD(Abs(b[1]), a[2])
      n1 == IF g1 = 0 THEN a[1] ELSE a[1] \div g1
      d2 == IF g1 = 0 THEN b[2] ELSE b[2] \div g1
      n2 == IF g2 = 0 THEN b[1] ELSE b[1] \div g2
      d1 == IF g2 = 0 THEN a[2] ELSE a[2] \div g2
  IN  Norm(n1 * n2, d1 * d2)

RInv(a) == Norm(a[2], a[1])

\* a <= b, decided by the sign of b - a.
RLeq(a, b) == RSub(b, a)[1] >= 0 /\ RSub(b, a) # <<0, 0>>

RLt(a, b) == RSub(b, a)[1] > 0

RMax(a, b) == IF RLeq(a, b) THEN b ELSE a

RMin(a, b) == IF RLeq(a, b) THEN a ELSE b

RECURSIVE RPow(_, _)
RPow(a, n) == IF n = 0 THEN <<1, 1>> ELSE RMul(a, RPow(a, n - 1))

\* a^z for an integer z of either sign.
RPowZ(a, z) == IF z >= 0 THEN RPow(a, z) ELSE RInv(RPow(a, -z))

\* f64 as usize: truncation toward zero, saturating at 0 for negatives and NaN.
\* (k64 is at most num_elements, so the saturation at usize::MAX is not met.)
AsUsize(a) == IF a[2] = 0 \/ a[1] < 0 THEN 0 ELSE a[1] \div a[2]

\* ------------------------------------------------ the helper functions

\* h_integral(x, exponent): helper2((1 - exponent) * ln x) * ln x, which is
\* (x^(1 - exponent) - 1) / (1 - exponent) for exponent # 1.
h_integral(x, exponent) ==
  RMul(RSub(RPowZ(x, 1 - exponent), <<1, 1>>), Rat(1, 1 - exponent))

\* The density with the exponent off by one (a slip in the power).
h_steeper(x, exponent) == RPowZ(x, -(exponent + 1))

\* h(x, exponent) = exp(-exponent * ln x) = 1 / x^exponent.
h(x, exponent) == RPowZ(x, -exponent)

\* h_integral_inv(x, exponent): t = x * (1 - exponent), limited to t >= -1, and
\* exp(helper1(t) * x) = (1 + t)^(x / t) = (1 + t)^(1 / (1 - exponent)); with
\* t = -1 this is exp(+inf) = +inf.  1 / (1 - exponent) is an integer for the
\* exponents of the model that pass new (exponent = 2 gives -1).
h_integral_inv(x, exponent) ==
  LET t0 == RMul(x, <<1 - exponent, 1>>)
      t  == IF RLt(t0, <<-1, 1>>) THEN <<-1, 1>> ELSE t0
  IN  RPowZ(RAdd(<<1, 1>>, t), CHOOSE m \in -1..1 : m * (1 - exponent) = 1)

\* ------------------------------------------------------ construction

\* The error value of Result<Self, ()>.
Unit == "()"

Ok(z) == [tag |-> "Ok", z |-> z]

Err(e) == [tag |-> "Err", err |-> e]

\* The struct literal of new: the fields computed from the arguments.
ZipfDistribution(num_elements, exponent) ==
  [num_elements |-> <<num_elements, 1>>,
   exponent |-> exponent,
   h_integral_x1 |-> RSub(h_integral(<<3, 2>>, exponent), <<1, 1>>),
   h_integral_num_elements |->
       h_integral(RAdd(<<num_elements, 1>>, Half), exponent),
   s |-> RSub(<<2, 1>>,
              h_integral_inv(RSub(h_integral(<<5, 2>>, exponent),
                                  h(<<2, 1>>, exponent)), exponent))]

\* new rejecting only negative exponents (a strict comparison slip).
newStrict(num_elements, exponent) ==
  IF num_elements = 0 THEN Err(Unit)
  ELSE IF exponent < 0 THEN Err(Unit)
  ELSE Ok(ZipfDistribution(num_elements, exponent))

\* new reporting the exponent failure with an error value of its own.
newTagged(num_elements, exponent) ==
  IF num_elements = 0 THEN Err(Unit)
  ELSE IF exponent <= 0 THEN Err("exponent")
  ELSE Ok(ZipfDistribution(num_elements, exponent))

\* ZipfDistribution::new
new(num_elements, exponent) ==
  IF num_elements = 0 THEN Err(Unit)
  ELSE IF exponent <= 0 THEN Err(Unit)
  ELSE Ok(ZipfDistribution(num_elements, exponent))

\* ------------------------------------------ one iteration of next's loop

\* The uniform draw rng.gen::<f64>() in [0,1) with numerator i.
Draw(i) == Rat(i, DrawDen)

\* u = hnum + rng.gen::<f64>() * (self.h_integral_x1 - hnum)
U(z, draw) ==
  RAdd(z.h_integral_num_elements,
       RMul(draw, RSub(z.h_integral_x1, z.h_integral_num_elements)))

\* k64 = x.max(1.0).min(self.num_elements)
Clamp(z, x) == RMin(RMax(x, <<1, 1>>), z.num_elements)

\* The candidate counted from zero and shifted by one (an off-by-one slip).
KShifted(k64) == IF 1 > AsUsize(k64) + 1 THEN 1 ELSE AsUsize(k64) + 1

\* k = cmp::max(1, k64 as usize)
K(k64) == IF 1 > AsUsize(k64) THEN 1 ELSE AsUsize(k64)

\* The left inequality of the acceptance test: k64 - x <= self.s
Shortcut(z, x, k64) == RLeq(RSub(k64, x), z.s)

\* The right inequality, for a candidate c:
\* u >= h_integral(c + 0.5, exponent) - h(c, exponent)
Exact(z, u, c) ==
  RLeq(RSub(h_integral(RAdd(c, Half), z.exponent), h(c, z.exponent)), u)

\* The test with its condition negated: the loop goes on where it should return.
AcceptNegated(z, u, x, k64) ==
  ~(Shortcut(z, x, k64) \/ Exact(z, u, k64))

\* The test of the sampler this one was ported from, on the candidate rounded
\* to the nearest integer instead of the clamped x.
AcceptRounded(z, u, x, k64) ==
  LET r  == AsUsize(RAdd(x, Half))
      kr == IF r < 1 THEN <<1, 1>>
            ELSE IF RLt(z.num_elements, <<r, 1>>) THEN z.num_elements
            ELSE <<r, 1>>
  IN  Shortcut(z, x, kr) \/ Exact(z, u, kr)

\* if k64 - x <= self.s || u >= h_integral(k64 + 0.5) - h(k64) { return k; }
Accept(z, u, x, k64) ==
  Shortcut(z, x, k64) \/ Exact(z, u, k64)

\* The body of the loop for one draw: the locals and whether k is returned.
LoopBody(z, draw) ==
  LET u   == U(z, draw)
      x   == h_integral_inv(u, z.exponent)
      k64 == Clamp(z, x)
  IN  [draw |-> draw, u |-> u, x |-> x, k64 |-> k64, k |-> K(k64),
       accept |-> Accept(z, u, x, k64)]

\* ------------------------------------------------------------ state

\* The arguments new is called with.
Populations == 0..MaxN

Exponents == {-1, 0, 2}

\* The numerators of the draws a random source may hand out.
DrawNums == {0, 1, 3, 4, DrawDen - 1}

\* Sampler objects.  A and B sample from identically seeded random sources
\* (the same tape of draws); O samples from a random source of its own.
Slots == {1, 2}

Callers == {"A", "B", "O"}

Replay == {"A", "B"}

\* The sampler each caller holds a shared reference to.
SamplerOf(c) == IF c = "B" THEN 2 ELSE 1

NoArgs == [num_elements |-> 0, exponent |-> 0]

NoResult == [tag |-> "None"]

\* Every sampler new can return for the arguments above.
Samplers ==
  {r.z : r \in {q \in {new(n, e) : n \in Populations, e \in Exponents} :
                  q.tag = "Ok"}}

\* The loop body is a pure function of the sampler and the draw; it is
\* tabulated once for the samplers and draws of the model.
LoopTable == [z \in Samplers |-> [i \in DrawNums |-> LoopBody(z, Draw(i))]]

NoLocals ==
  [draw |-> <<0, 1>>, u |-> <<0, 1>>, x |-> <<0, 1>>, k64 |-> <<0, 1>>, k |-> 0,
   accept |-> FALSE]

VARIABLES
  args,   \* slot -> the arguments of its call of new
  res,    \* slot -> the Result new returned
  pc,     \* caller -> "idle" (outside next) or "loop" (inside its loop)
  loc,    \* caller -> the locals of its latest loop iteration
  ret,    \* caller -> the value its latest call returned
  calls,  \* caller -> the number of calls that returned
  iters,  \* caller -> the number of loop iterations it ran
  rng,    \* caller -> the number of draws its random source handed out
  tape    \* the draws of the shared seed, as far as A or B asked for them

vars == <<args, res, pc, loc, ret, calls, iters, rng, tape>>

Init ==
  /\ args = [s \in Slots |-> NoArgs]
  /\ res = [s \in Slots |-> NoResult]
  /\ pc = [c \in Callers |-> "idle"]
  /\ loc = [c \in Callers |-> NoLocals]
  /\ ret = [c \in Callers |-> 0]
  /\ calls = [c \in Callers |-> 0]
  /\ iters = [c \in Callers |-> 0]
  /\ rng = [c \in Callers |-> 0]
  /\ tape = <<>>

\* let z = ZipfDistribution::new(num_elements, exponent) for sampler s.
New(s, num_elements, exponent) ==
  /\ res[s].tag = "None"
  /\ args' = [args EXCEPT ![s] =
                 [num_elements |-> num_elements, exponent |-> exponent]]
  /\ res' = [res EXCEPT ![s] = new(num_elements, exponent)]
  /\ UNCHANGED <<pc, loc, ret, calls, iters, rng, tape>>

\* Two samplers constructed with the same arguments.
NewPair(num_elements, exponent) ==
  /\ \A s \in Slots : res[s].tag = "None"
  /\ args' = [s \in Slots |->
                 [num_elements |-> num_elements, exponent |-> exponent]]
  /\ res' = [s \in Slots |-> new(num_elements, exponent)]
  /\ UNCHANGED <<pc, loc, ret, calls, iters, rng, tape>>

\* z.sample(&mut rng) is entered: next runs up to its loop.
Call(c, limit) ==
  /\ pc[c] = "idle"
  /\ res[SamplerOf(c)].tag = "Ok"
  /\ rng[c] < limit
  /\ pc' = [pc EXCEPT ![c] = "loop"]
  /\ UNCHANGED <<args, res, loc, ret, calls, iters, rng, tape>>

\* A sampler that ignores the random source it is given and draws from a
\* generator of its own (rand::thread_rng() in place of the rng argument).
NextDrawsThreadRng(c) == DrawNums

\* The draws the random source handed to next by c can hand out: the tape of
\* the shared seed for A and B (extended when it is read past its end), any draw
\* for a source of its own.
NextDraws(c) ==
  IF c \in Replay /\ rng[c] < Len(tape) THEN {tape[rng[c] + 1]} ELSE DrawNums

\* A random source asked twice per iteration.
genTwice(r) == r + 2

\* rng.gen::<f64>() takes one draw from the random source.
gen(r) == r + 1

\* One iteration of the loop of next: draw, compute the candidate, and return
\* it if the acceptance test holds.
Iter(c, limit) ==
  /\ pc[c] = "loop"
  /\ rng[c] < limit
  /\ \E i \in NextDraws(c) :
       LET it == LoopTable[res[SamplerOf(c)].z][i]
       IN  /\ loc' = [loc EXCEPT ![c] = it]
           /\ rng' = [rng EXCEPT ![c] = gen(@)]
           /\ iters' = [iters EXCEPT ![c] = @ + 1]
           /\ tape' = IF c \in Replay /\ rng[c] >= Len(tape)
                        THEN Append(tape, i) ELSE tape
           /\ pc' = [pc EXCEPT ![c] = IF it.accept THEN "idle" ELSE "loop"]
           /\ ret' = [ret EXCEPT ![c] = IF it.accept THEN it.k ELSE @]
           /\ calls' = [calls EXCEPT ![c] = IF it.accept THEN @ + 1 ELSE @]
  /\ UNCHANGED <<args, res>>

\* One caller with a random source of its own.
Construct == \E s \in Slots, n \in Populations, e \in Exponents : New(s, n, e)

Sample == Call("O", MaxDraws)

Loop == Iter("O", MaxDraws)

Next == Construct \/ Sample \/ Loop

Spec == Init /\ [][Next]_vars

\* The loop of a call that was entered keeps running.
FairSpec == Spec /\ WF_vars(Loop)

\* Two samplers with the same arguments, fed the same draws, and a third caller
\* sharing the first sampler.
ConstructPair == \E n \in Populations, e \in Exponents : NewPair(n, e)

SampleAny == \E c \in Callers : Call(c, TwinDraws)

LoopAny == \E c \in Callers : Iter(c, TwinDraws)

NextTwin == ConstructPair \/ SampleAny \/ LoopAny

SpecTwin == Init /\ [][NextTwin]_vars

\* ------------------------------------------------------------ claims

\* The sampler caller c samples from, and the locals of its latest iteration.
Z(c) == res[SamplerOf(c)].z

N(c) == args[SamplerOf(c)].num_elements

Constructed(s) == res[s].tag # "None"

Failed(s) == res[s].tag = "Err"

Invalid(s) == args[s].num_elements = 0 \/ args[s].exponent <= 0

\* C1: every value sample returns is an integer k with 1 <= k <= N, and with
\* N = 1 every returned value is 1.
SampleInRange ==
  \A c \in Callers :
    calls[c] > 0 =>
      /\ ret[c] \in 1..N(c)
      /\ (N(c) = 1 => ret[c] = 1)

\* A call returned N >= 2 for an x above N, which the clamp brought back.
SampleClampedToN ==
  /\ calls["O"] > 0
  /\ N("O") >= 2
  /\ RLt(Z("O").num_elements, loc["O"].x)
  /\ ret["O"] = N("O")

\* C2: new returns an error if and only if num_elements = 0 or exponent <= 0,
\* and a sampler for every num_elements >= 1 and exponent > 0.
NewFailsIff ==
  \A s \in Slots :
    Constructed(s) =>
      /\ (Failed(s) <=> Invalid(s))
      /\ (args[s].num_elements >= 1 /\ args[s].exponent > 0
            => res[s].tag = "Ok")

\* new refused the exponent 0 for a positive population and built a sampler
\* for a positive exponent.
NewRefusedZeroExponent ==
  /\ Failed(1)
  /\ args[1].num_elements >= 1
  /\ args[1].exponent = 0
  /\ res[2].tag = "Ok"

\* C3, as stated: the error value tells the cause, so a failure for a zero
\* population alone and a failure for a non-positive exponent alone carry
\* different error values.
ErrorTellsCause ==
  \A s, t \in Slots :
    ( /\ Failed(s) /\ Failed(t)
      /\ args[s].num_elements = 0 /\ args[s].exponent > 0
      /\ args[t].num_elements > 0 /\ args[t].exponent <= 0 )
    => res[s].err # res[t].err

\* C3, amended: new fails exactly when num_elements = 0 or exponent <= 0, and
\* every failure carries the same unit error value (), whatever its cause.
ErrorIsUnit ==
  /\ \A s \in Slots :
       /\ Constructed(s) => (Failed(s) <=> Invalid(s))
       /\ Failed(s) => res[s].err = Unit
  /\ \A s, t \in Slots :
       (Failed(s) /\ Failed(t)) => res[s].err = res[t].err

\* Two failed constructions with different causes.
TwoCausesFailed ==
  /\ Failed(1) /\ args[1].num_elements = 0 /\ args[1].exponent > 0
  /\ Failed(2) /\ args[2].num_elements > 0 /\ args[2].exponent <= 0

RECURSIVE IPow(_, _)
IPow(b, n) == IF n = 0 THEN 1 ELSE b * IPow(b, n - 1)

\* The number of grid draws i / MeasureGrid on which an iteration returns k.
\* The draws returning k form an interval of [0,1), so this number differs from
\* MeasureGrid times the measure of that interval by at most 1.  (An iteration
\* that rejects draws again, independently, so the probability of returning k
\* is proportional to the measure of the draws that are accepted with k.)
Measure(z, k) ==
  Cardinality({i \in 0..(MeasureGrid - 1) :
                 LET b == LoopBody(z, Rat(i, MeasureGrid))
                 IN  b.accept /\ b.k = k})

MeasureTable == [z \in Samplers |-> [k \in 1..MaxN |-> Measure(z, k)]]

\* C4: the returned values are Zipf-distributed: for all k, m in [1, N] the
\* measure of the draws returning k, times k^s, equals the measure of the draws
\* returning m, times m^s (up to the resolution of the grid, which is at most
\* one grid point for each of the two measures).
ZipfProportional ==
  \A s \in Slots :
    res[s].tag = "Ok" =>
      \A k, m \in 1..args[s].num_elements :
        LET wk == IPow(k, args[s].exponent)
            wm == IPow(m, args[s].exponent)
        IN  Abs(MeasureTable[res[s].z][k] * wk - MeasureTable[res[s].z][m] * wm)
              <= wk + wm

\* C5: two samplers constructed with the same (N, s) and fed the same draws
\* return the same values and consume the same number of draws, whatever the
\* calls of another caller on the shared sampler that are interleaved.
Deterministic ==
  ( /\ res[1].tag = "Ok" /\ res[2].tag = "Ok" /\ args[1] = args[2]
    /\ calls["A"] = calls["B"]
    /\ pc["A"] = "idle" /\ pc["B"] = "idle" )
  => (ret["A"] = ret["B"] /\ rng["A"] = rng["B"])

\* Both twins returned twice, a value above 1 the second time, with a call of
\* the third caller on the shared sampler that returned something else.
TwinsAgreed ==
  /\ calls["A"] = 2 /\ calls["B"] = 2
  /\ pc["A"] = "idle" /\ pc["B"] = "idle"
  /\ ret["A"] >= 2
  /\ calls["O"] >= 1
  /\ ret["O"] # ret["A"]

\* C6: k is the clamped x rounded to the nearest integer: every clamped x in
\* [j - 0.5, j + 0.5) with 1 <= j <= N yields k = j.
RoundsToNearest ==
  \A c \in Callers :
    iters[c] > 0 =>
      \A j \in 1..N(c) :
        ( /\ RLeq(RSub(<<j, 1>>, Half), loc[c].k64)
          /\ RLt(loc[c].k64, RAdd(<<j, 1>>, Half)) )
        => loc[c].k = j

\* C7: every call of sample eventually returns.
EventuallyReturns == (pc["O"] = "loop") ~> (pc["O"] = "idle")

\* A call was entered and has returned.
CallReturned == calls["O"] >= 1 /\ pc["O"] = "idle" /\ ret["O"] >= 1

\* C8: whenever the shortcut k64 - x <= s holds for the candidate the
\* acceptance test is evaluated on, the exact test holds for it too; and every
\* returned k satisfies the exact test.
ShortcutImpliesExact ==
  \A c \in Callers :
    iters[c] > 0 =>
      /\ Shortcut(Z(c), loc[c].x, loc[c].k64)
           => Exact(Z(c), loc[c].u, loc[c].k64)
      /\ loc[c].accept => Exact(Z(c), loc[c].u, <<loc[c].k, 1>>)

\* The shortcut held for an unclamped candidate of 2 or more.
ShortcutTaken ==
  /\ iters["O"] > 0
  /\ loc["O"].k64 = loc["O"].x
  /\ RLeq(<<2, 1>>, loc["O"].x)
  /\ Shortcut(Z("O"), loc["O"].x, loc["O"].k64)

\* C9: sampling only consumes draws, one per loop iteration, and new consumes
\* none; the fields of a sampler are the values new computed and never change.
FrameEffect ==
  [][ /\ \A s \in Slots :
           res[s].tag = "Ok" =>
             /\ res'[s] = res[s]
             /\ args'[s] = args[s]
             /\ res[s].z = ZipfDistribution(args[s].num_elements,
                                            args[s].exponent)
      /\ \A c \in Callers : rng'[c] - rng[c] = iters'[c] - iters[c]
      /\ res' # res => rng' = rng
    ]_vars

\* Two iterations ran on a sampler constructed for N >= 2.
TwoIterationsRan ==
  /\ iters["O"] = 2
  /\ rng["O"] = 2
  /\ N("O") >= 2

====
